---- MODULE Spec2Model ----
(***************************************************************************)
(* Tag reconciliation of pkg/cloud/services/eks/tags.go: the two tag       *)
(* differs (getTagUpdates, getASGTagUpdates), the reconcilers that send    *)
(* the diff to AWS (updateTags, updateECSTags, reconcileASGTags) and the   *)
(* nodegroup cascade (NodegroupService.reconcileTags ->                    *)
(* reconcileInstanceTags -> reconcileEBSVolumeTags).                       *)
(*                                                                         *)
(* A tag map (Go map[string]string) is a function from a finite set of     *)
(* keys to values.  AWS is the environment: `cloud` holds the tags every   *)
(* resource really carries, every API call either succeeds (and acts on    *)
(* `cloud`) or fails (and changes nothing), and `calls` is the history of  *)
(* the requests sent.                                                      *)
(***************************************************************************)
EXTENDS Integers, Sequences, FiniteSets, TLC

VARIABLES
    entry,                \* the function of tags.go the run executes
    clusterName,          \* s.scope.ClusterName()
    loopVarPerIteration,  \* the build's Go loop-variable semantics (Go >= 1.22: TRUE)
    pageSize,             \* how many items EC2 puts on one describe page
    wanted,               \* the desired tags handed in: desiredTags, AdditionalTags() or ngTags()
    cloud,                \* resource -> the tags it carries in AWS
    initial,              \* cloud as it was when the run started (history)
    pc,                   \* position in the entry function
    callee,               \* the update function being executed, or "none"
    upc,                  \* position inside the callee
    target,               \* the resource the callee acts on
    existingTags,         \* callee argument
    desiredTags,          \* callee argument
    untagKeys,            \* result of getTagUpdates: a slice
    newTags,              \* result of getTagUpdates: a map
    tagsToDelete,         \* result of getASGTagUpdates
    tagsToAdd,            \* result of getASGTagUpdates
    output,               \* DescribeInstances output held by reconcileInstanceTags
    i,                    \* index of the instance being processed in output
    voutput,              \* DescribeVolumes output held by reconcileEBSVolumeTags
    j,                    \* index of the volume being processed in voutput
    calls,                \* history: the API requests sent, in order
    sent,                 \* history: the tag list of the last request sent
    err                   \* the error the entry function returned, or NoError

vars == <<entry, clusterName, loopVarPerIteration, pageSize, wanted, cloud, initial,
          pc, callee, upc, target, existingTags, desiredTags, untagKeys, newTags,
          tagsToDelete, tagsToAdd, output, i, voutput, j, calls, sent, err>>

(***************************************************************************)
(* Bounds of the model.                                                    *)
(***************************************************************************)
\* most tags of a map handed to updateTags, updateECSTags or reconcileASGTags
MaxTags == 2
\* most tags of a map in a nodegroup cascade (per resource, and of ngTags())
MaxResTags == 1
\* most requests the history keeps; later requests are sent but not recorded
MaxCalls == 12

ClusterNames == {"c1", "c2"}
NodegroupName == "ng1"
\* tag values: the first is cluster c1's name, the second the nodegroup's name
TagValues == {"c1", "ng1"}

(***************************************************************************)
(* Tag keys.                                                               *)
(***************************************************************************)
eksClusterNameTag == "eks:cluster-name"
eksNodeGroupNameTag == "eks:nodegroup-name"
eksClusterAutoscalerEnabledTag == "k8s.io/cluster-autoscaler/enabled"
ClusterAutoscalerTag(name) == "k8s.io/cluster-autoscaler/" \o name
ClusterAWSCloudProviderTagKey(name) == "kubernetes.io/cluster/" \o name

\* keys of the maps handed to updateTags and updateECSTags
PlainKeys == {eksClusterNameTag, "team", "env"}
\* keys of the maps handed to reconcileASGTags: the reserved keys of cluster c1
\* (reserved when clusterName is c1, ordinary keys when it is c2) and a user key
ASGKeys == {eksClusterNameTag, eksNodeGroupNameTag, eksClusterAutoscalerEnabledTag,
            ClusterAutoscalerTag("c1"), ClusterAWSCloudProviderTagKey("c1"), "team"}
\* keys of the tags of instances and volumes and of ngTags() in a cascade
CascadeKeys == {eksClusterNameTag, "team"}

Empty == [k \in {} |-> "c1"]
TagMaps(keys, n) ==
    UNION {[S -> TagValues] : S \in {T \in SUBSET keys : Cardinality(T) <= n}}

NoValue == "<nil>"
NoError == "nil"
\* a []*Tag / []*TagDescription with distinct keys, as the set of its entries
TagEntries(m) == {[Key |-> k, Value |-> m[k]] : k \in DOMAIN m}
KeyEntries(S) == {[Key |-> k, Value |-> NoValue] : k \in S}
Range(s) == {s[n] : n \in DOMAIN s}
\* the orders in which Go may range over a map with key set S
Orders(S) ==
    {s \in [1..Cardinality(S) -> S] :
        \A m, n \in 1..Cardinality(S) : m # n => s[m] # s[n]}

(***************************************************************************)
(* The differs.                                                            *)
(***************************************************************************)
\* a differ that upserts only the keys current lacks (no comparison of values)
getTagUpdatesMissingOnly(currentTags, tags) ==
    {[untagKeys |-> s,
      newTags   |-> [key \in {k \in DOMAIN tags : k \notin DOMAIN currentTags} |-> tags[key]]] :
        s \in Orders({key \in DOMAIN currentTags : key \notin DOMAIN tags})}

\* a differ that upserts every desired tag, changed or not
getTagUpdatesAllDesired(currentTags, tags) ==
    {[untagKeys |-> s, newTags |-> tags] :
        s \in Orders({key \in DOMAIN currentTags : key \notin DOMAIN tags})}

\* getTagUpdates: every result the call can return (untagKeys is appended to
\* in map iteration order, which Go leaves unspecified).
getTagUpdates(currentTags, tags) ==
    {[untagKeys |-> s,
      newTags   |-> [key \in {k \in DOMAIN tags :
                                 k \notin DOMAIN currentTags \/ tags[k] # currentTags[k]}
                       |-> tags[key]]] :
        s \in Orders({key \in DOMAIN currentTags : key \notin DOMAIN tags})}

officialASGTagsByEKS(name) ==
    {eksClusterNameTag, eksNodeGroupNameTag, ClusterAutoscalerTag(name),
     eksClusterAutoscalerEnabledTag, ClusterAWSCloudProviderTagKey(name)}

\* an ASG differ without the isOfficialTag exemption
getASGTagUpdatesNoExemption(name, currentTags, tags) ==
    [tagsToDelete |-> [k \in {c \in DOMAIN currentTags : c \notin DOMAIN tags} |-> currentTags[k]],
     tagsToAdd    |-> [key \in {k \in DOMAIN tags :
                                   k \notin DOMAIN currentTags \/ tags[k] # currentTags[k]}
                         |-> tags[key]]]

getASGTagUpdates(name, currentTags, tags) ==
    [tagsToDelete |-> [k \in {c \in DOMAIN currentTags :
                                 c \notin DOMAIN tags /\ c \notin officialASGTagsByEKS(name)}
                         |-> currentTags[k]],
     tagsToAdd    |-> [key \in {k \in DOMAIN tags :
                                   k \notin DOMAIN currentTags \/ tags[k] # currentTags[k]}
                         |-> tags[key]]]

tagDescriptionsToMap(input) ==
    [k \in {v.Key : v \in input} |-> (CHOOSE v \in input : v.Key = k).Value]

(***************************************************************************)
(* AWS, the environment.                                                   *)
(***************************************************************************)
\* TagResource / CreateTags / CreateOrUpdateTags: add or overwrite
Upsert(m, entries) ==
    [k \in DOMAIN m \cup {e.Key : e \in entries} |->
        IF \E e \in entries : e.Key = k
        THEN (CHOOSE e \in entries : e.Key = k).Value
        ELSE m[k]]
\* UntagResource / DeleteTags: remove by key
Remove(m, entries) == [k \in DOMAIN m \ {e.Key : e \in entries} |-> m[k]]

Call(api, res, ok) == [api |-> api, res |-> res, ok |-> ok]
Log(c) == IF Len(calls) < MaxCalls THEN Append(calls, c) ELSE calls
\* a request carrying the tag list `entries` (n entries) is sent and answered
Send(api, res, entries, n, ok) ==
    /\ calls' = Log(Call(api, res, ok))
    /\ sent' = [tags |-> entries, n |-> n]


(***************************************************************************)
(* The nodegroup the cascade runs on: its instances in the order the       *)
(* describe calls list them, and the EBS volumes mapped to each.           *)
(***************************************************************************)
Instances == <<"i1", "i2">>
VolumesOf(inst) == IF inst = "i1" THEN <<"v1", "v2">> ELSE <<"v3">>
Resources == {"ng", "asg", "i1", "i2", "v1", "v2", "v3"}
PageSizes == {1, 2}
NoOutput == [Items |-> <<>>, Tags |-> Empty, NextToken |-> FALSE]

inputs == <<entry, clusterName, loopVarPerIteration, pageSize, wanted, initial>>
frame == <<target, existingTags, desiredTags>>
diffs == <<untagKeys, newTags, tagsToDelete, tagsToAdd>>
history == <<calls, sent>>
loop == <<output, i, voutput, j>>

\* a caller that drops the error and goes on
ReturnIgnoringError(e) ==
    /\ callee' = "none"
    /\ upc' = "idle"
    /\ err' = err
    /\ CASE pc = "updateTags" ->
                pc' = "DescribeAutoScalingGroups" /\ UNCHANGED <<i, j>>
         [] pc = "instance" ->
                pc' = "DescribeVolumes" /\ UNCHANGED <<i, j>>
         [] pc = "volume" ->
                pc' = "volumes" /\ j' = j + 1 /\ UNCHANGED i
         [] OTHER ->
                pc' = "done" /\ UNCHANGED <<i, j>>

(***************************************************************************)
(* Return of updateTags / updateECSTags to the function that called it:    *)
(* every caller returns a non-nil error at once (lines 116-118, 159-161,   *)
(* 201-203) and otherwise goes on with its next statement.                 *)
(***************************************************************************)
Return(e) ==
    /\ callee' = "none"
    /\ upc' = "idle"
    /\ IF e # NoError
       THEN pc' = "done" /\ err' = e /\ UNCHANGED <<i, j>>
       ELSE /\ err' = err
            /\ CASE pc = "updateTags" ->
                        pc' = "DescribeAutoScalingGroups" /\ UNCHANGED <<i, j>>
                 [] pc = "instance" ->
                        pc' = "DescribeVolumes" /\ UNCHANGED <<i, j>>
                 [] pc = "volume" ->
                        pc' = "volumes" /\ j' = j + 1 /\ UNCHANGED i
                 [] OTHER ->
                        pc' = "done" /\ UNCHANGED <<i, j>>

(***************************************************************************)
(* updateTags (EKS: nodegroup or Fargate profile).                         *)
(***************************************************************************)
updateTags_getTagUpdates ==
    /\ callee = "updateTags" /\ upc = "diff"
    /\ \E r \in getTagUpdates(existingTags, desiredTags) :
          /\ untagKeys' = r.untagKeys
          /\ newTags' = r.newTags
    /\ upc' = "add"
    /\ UNCHANGED <<inputs, frame, loop, cloud, pc, callee, tagsToDelete, tagsToAdd,
                   history, err>>

\* aws.StringMap(newTags): the request carries the map itself
TagResourceInput(m) == TagEntries(m)
UntagResourceInput(s) == KeyEntries(Range(s))

updateTags_TagResource ==
    /\ callee = "updateTags" /\ upc = "add"
    /\ IF DOMAIN newTags = {}
       THEN upc' = "remove" /\ UNCHANGED <<cloud, history, pc, callee, err, i, j>>
       ELSE \E ok \in BOOLEAN :
              /\ Send("TagResource", target, TagResourceInput(newTags),
                                   Cardinality(DOMAIN newTags), ok)
              /\ IF ok
                 THEN /\ cloud' = [cloud EXCEPT ![target] = Upsert(@, TagResourceInput(newTags))]
                      /\ upc' = "remove"
                      /\ UNCHANGED <<pc, callee, err, i, j>>
                 ELSE Return("TagResource") /\ UNCHANGED cloud
    /\ UNCHANGED <<inputs, frame, diffs, output, voutput>>

updateTags_UntagResource ==
    /\ callee = "updateTags" /\ upc = "remove"
    /\ IF Len(untagKeys) = 0
       THEN Return(NoError) /\ UNCHANGED <<cloud, history>>
       ELSE \E ok \in BOOLEAN :
              /\ Send("UntagResource", target, UntagResourceInput(untagKeys),
                                   Len(untagKeys), ok)
              /\ IF ok
                 THEN /\ cloud' = [cloud EXCEPT ![target] = Remove(@, UntagResourceInput(untagKeys))]
                      /\ Return(NoError)
                 ELSE Return("UntagResource") /\ UNCHANGED cloud
    /\ UNCHANGED <<inputs, frame, diffs, output, voutput>>

(***************************************************************************)
(* updateECSTags (EC2: instance or volume).  The requests are built in     *)
(* loops that take the address of the loop variables (&k, &v): where the   *)
(* build shares one variable among the iterations, every entry of the      *)
(* request points at the values of the last iteration.                     *)
(***************************************************************************)
\* lines 308-314: the tag lists the loop over newTags can build
CreateTagsInput(m) ==
    IF loopVarPerIteration
    THEN {TagEntries(m)}
    ELSE {{[Key |-> k, Value |-> m[k]]} : k \in DOMAIN m}

\* lines 326-329: the tag list the loop over untagKeys builds
DeleteTagsInput(s) ==
    IF loopVarPerIteration
    THEN KeyEntries(Range(s))
    ELSE KeyEntries({s[Len(s)]})

updateECSTags_getTagUpdates ==
    /\ callee = "updateECSTags" /\ upc = "diff"
    /\ \E r \in getTagUpdates(existingTags, desiredTags) :
          /\ untagKeys' = r.untagKeys
          /\ newTags' = r.newTags
    /\ upc' = "add"
    /\ UNCHANGED <<inputs, frame, loop, cloud, pc, callee, tagsToDelete, tagsToAdd,
                   history, err>>

updateECSTags_CreateTags ==
    /\ callee = "updateECSTags" /\ upc = "add"
    /\ IF DOMAIN newTags = {}
       THEN upc' = "remove" /\ UNCHANGED <<cloud, history, pc, callee, err, i, j>>
       ELSE \E tags \in CreateTagsInput(newTags), ok \in BOOLEAN :
              /\ Send("CreateTags", target, tags,
                                   Cardinality(DOMAIN newTags), ok)
              /\ IF ok
                 THEN /\ cloud' = [cloud EXCEPT ![target] = Upsert(@, tags)]
                      /\ upc' = "remove"
                      /\ UNCHANGED <<pc, callee, err, i, j>>
                 ELSE Return("CreateTags") /\ UNCHANGED cloud
    /\ UNCHANGED <<inputs, frame, diffs, output, voutput>>

updateECSTags_DeleteTags ==
    /\ callee = "updateECSTags" /\ upc = "remove"
    /\ IF Len(untagKeys) = 0
       THEN Return(NoError) /\ UNCHANGED <<cloud, history>>
       ELSE \E ok \in BOOLEAN :
              /\ Send("DeleteTags", target, DeleteTagsInput(untagKeys),
                                   Len(untagKeys), ok)
              /\ IF ok
                 THEN /\ cloud' = [cloud EXCEPT ![target] = Remove(@, DeleteTagsInput(untagKeys))]
                      /\ Return(NoError)
                 ELSE Return("DeleteTags") /\ UNCHANGED cloud
    /\ UNCHANGED <<inputs, frame, diffs, output, voutput>>

(***************************************************************************)
(* NodegroupService.reconcileASGTags.                                      *)
(***************************************************************************)
\* lines 232-244 and 253-262: kCopy / vCopy give every entry its own key and value
CreateOrUpdateTagsInput(m) == TagEntries(m)
ASGDeleteTagsInput(m) == KeyEntries(DOMAIN m)

reconcileASGTags_describeASGs ==
    /\ entry = "reconcileASGTags" /\ pc = "describeASGs"
    /\ \E ok \in BOOLEAN :
          /\ Send("describeASGs", "asg", {}, 0, ok)
          /\ IF ok
             THEN LET asgTags == TagEntries(cloud["asg"])
                      r == getASGTagUpdates(clusterName, tagDescriptionsToMap(asgTags), wanted)
                  IN  /\ tagsToDelete' = r.tagsToDelete
                      /\ tagsToAdd' = r.tagsToAdd
                      /\ pc' = "CreateOrUpdateTags"
                      /\ err' = err
             ELSE /\ pc' = "done"
                  /\ err' = "describeASGs"
                  /\ UNCHANGED <<tagsToDelete, tagsToAdd>>
    /\ UNCHANGED <<inputs, frame, loop, cloud, callee, upc, untagKeys, newTags>>

reconcileASGTags_CreateOrUpdateTags ==
    /\ entry = "reconcileASGTags" /\ pc = "CreateOrUpdateTags"
    /\ IF DOMAIN tagsToAdd = {}
       THEN pc' = "DeleteTags" /\ UNCHANGED <<cloud, history, err>>
       ELSE \E ok \in BOOLEAN :
              /\ Send("CreateOrUpdateTags", "asg", CreateOrUpdateTagsInput(tagsToAdd),
                                   Cardinality(DOMAIN tagsToAdd), ok)
              /\ IF ok
                 THEN /\ cloud' = [cloud EXCEPT !["asg"] = Upsert(@, CreateOrUpdateTagsInput(tagsToAdd))]
                      /\ pc' = "DeleteTags"
                      /\ err' = err
                 ELSE pc' = "done" /\ err' = "CreateOrUpdateTags" /\ UNCHANGED cloud
    /\ UNCHANGED <<inputs, frame, diffs, loop, callee, upc>>

reconcileASGTags_DeleteTags ==
    /\ entry = "reconcileASGTags" /\ pc = "DeleteTags"
    /\ IF DOMAIN tagsToDelete = {}
       THEN pc' = "done" /\ UNCHANGED <<cloud, history, err>>
       ELSE \E ok \in BOOLEAN :
              /\ Send("ASGDeleteTags", "asg", ASGDeleteTagsInput(tagsToDelete),
                                   Cardinality(DOMAIN tagsToDelete), ok)
              /\ pc' = "done"
              /\ IF ok
                 THEN /\ cloud' = [cloud EXCEPT !["asg"] = Remove(@, ASGDeleteTagsInput(tagsToDelete))]
                      /\ err' = err
                 ELSE err' = "ASGDeleteTags" /\ UNCHANGED cloud
    /\ UNCHANGED <<inputs, frame, diffs, loop, callee, upc>>


(***************************************************************************)
(* NodegroupService.reconcileTags -> reconcileInstanceTags ->              *)
(* reconcileEBSVolumeTags.  reconcileTags starts inside its call of        *)
(* updateTags on the nodegroup (see InitReconcileTags).                    *)
(***************************************************************************)
Min(a, b) == IF a < b THEN a ELSE b
\* the answer of a describe call for the items `ids`: the first page only
Page(ids, size) ==
    [Items     |-> SubSeq(ids, 1, Min(size, Len(ids))),
     Tags      |-> [r \in {ids[n] : n \in 1..Min(size, Len(ids))} |-> TagEntries(cloud[r])],
     NextToken |-> Len(ids) > size]

\* desired[k] = v for k, v := range over: the later map wins
Overlay(base, over) ==
    [k \in DOMAIN base \cup DOMAIN over |-> IF k \in DOMAIN over THEN over[k] ELSE base[k]]
\* a desired map that forgets the tags the instance carries
InstanceDesiredNgTagsOnly(tagList, ngtags) == ngtags
\* lines 148-157
InstanceDesired(tagList, ngtags) == Overlay(tagDescriptionsToMap(tagList), ngtags)
\* lines 189-200
VolumeDesired(tagList, ngtags) ==
    Overlay(Overlay((eksClusterNameTag :> clusterName) @@ (eksNodeGroupNameTag :> NodegroupName),
                    tagDescriptionsToMap(tagList)),
            ngtags)

reconcileInstanceTags_DescribeAutoScalingGroups ==
    /\ entry = "reconcileTags" /\ pc = "DescribeAutoScalingGroups"
    /\ \E ok \in BOOLEAN :
          /\ Send("DescribeAutoScalingGroups", "asg", {}, 0, ok)
          /\ IF ok
             THEN pc' = "DescribeInstances" /\ err' = err
             ELSE pc' = "done" /\ err' = "DescribeAutoScalingGroups"
    /\ UNCHANGED <<inputs, frame, diffs, loop, cloud, callee, upc>>

reconcileInstanceTags_DescribeInstances ==
    /\ entry = "reconcileTags" /\ pc = "DescribeInstances"
    /\ \E ok \in BOOLEAN :
          /\ Send("DescribeInstances", "ng", {}, 0, ok)
          /\ IF ok
             THEN /\ output' = Page(Instances, pageSize.inst)
                  /\ i' = 1
                  /\ pc' = "instances"
                  /\ err' = err
             ELSE /\ pc' = "done"
                  /\ err' = "DescribeInstances"
                  /\ UNCHANGED <<output, i>>
    /\ UNCHANGED <<inputs, frame, diffs, voutput, j, cloud, callee, upc>>

\* lines 146-159: the next instance of the page in hand; updateECSTags is called
reconcileInstanceTags_instance ==
    /\ entry = "reconcileTags" /\ pc = "instances"
    /\ i <= Len(output.Items)
    /\ LET instance == output.Items[i]
       IN  /\ target' = instance
           /\ existingTags' = tagDescriptionsToMap(output.Tags[instance])
           /\ desiredTags' = InstanceDesired(output.Tags[instance], wanted)
    /\ callee' = "updateECSTags"
    /\ upc' = "diff"
    /\ pc' = "instance"
    /\ UNCHANGED <<inputs, diffs, loop, cloud, history, err>>

\* lines 173-177: the page in hand is exhausted
reconcileInstanceTags_NextToken ==
    /\ entry = "reconcileTags" /\ pc = "instances"
    /\ i > Len(output.Items)
    /\ IF output.NextToken
       THEN i' = 1 /\ pc' = pc
       ELSE i' = i /\ pc' = "done"
    /\ UNCHANGED <<inputs, frame, diffs, output, voutput, j, cloud, callee, upc, history, err>>

\* lines 162-168 and 181-186
reconcileEBSVolumeTags_DescribeVolumes ==
    /\ entry = "reconcileTags" /\ pc = "DescribeVolumes"
    /\ \E ok \in BOOLEAN :
          /\ Send("DescribeVolumes", output.Items[i], {}, 0, ok)
          /\ IF ok
             THEN /\ voutput' = Page(VolumesOf(output.Items[i]), pageSize.vol)
                  /\ j' = 1
                  /\ pc' = "volumes"
                  /\ err' = err
             ELSE /\ pc' = "done"
                  /\ err' = "DescribeVolumes"
                  /\ UNCHANGED <<voutput, j>>
    /\ UNCHANGED <<inputs, frame, diffs, output, i, cloud, callee, upc>>

\* lines 188-201: the next volume of the page in hand; updateECSTags is called
reconcileEBSVolumeTags_volume ==
    /\ entry = "reconcileTags" /\ pc = "volumes"
    /\ j <= Len(voutput.Items)
    /\ LET volume == voutput.Items[j]
       IN  /\ target' = volume
           /\ existingTags' = tagDescriptionsToMap(voutput.Tags[volume])
           /\ desiredTags' = VolumeDesired(voutput.Tags[volume], wanted)
    /\ callee' = "updateECSTags"
    /\ upc' = "diff"
    /\ pc' = "volume"
    /\ UNCHANGED <<inputs, diffs, loop, cloud, history, err>>

\* lines 205-209: the page in hand is exhausted; on return nil the caller
\* goes on with its next instance
reconcileEBSVolumeTags_NextToken ==
    /\ entry = "reconcileTags" /\ pc = "volumes"
    /\ j > Len(voutput.Items)
    /\ IF voutput.NextToken
       THEN j' = 1 /\ UNCHANGED <<pc, i, voutput>>
       ELSE j' = 1 /\ i' = i + 1 /\ pc' = "instances" /\ voutput' = NoOutput
    /\ UNCHANGED <<inputs, frame, diffs, output, cloud, callee, upc, history, err>>

(***************************************************************************)
(* Initial states: one run of one function on inputs from the bounded sets.*)
(***************************************************************************)
Idle ==
    /\ untagKeys = <<>> /\ newTags = Empty
    /\ tagsToDelete = Empty /\ tagsToAdd = Empty
    /\ output = NoOutput /\ i = 1 /\ voutput = NoOutput /\ j = 1
    /\ calls = <<>> /\ sent = [tags |-> {}, n |-> 0] /\ err = NoError
    /\ initial = cloud

\* updateTags(client, arn, existingTags, desiredTags), as FargateService.reconcileTags calls it
InitUpdateTags ==
    /\ entry = "updateTags" /\ pc = "call" /\ callee = "updateTags" /\ upc = "diff"
    /\ target = "ng"
    /\ clusterName = "c1" /\ loopVarPerIteration = TRUE /\ pageSize = [inst |-> 2, vol |-> 2]
    /\ \E e \in TagMaps(PlainKeys, MaxTags), d \in TagMaps(PlainKeys, MaxTags) :
          /\ existingTags = e /\ desiredTags = d /\ wanted = d
          /\ cloud = [r \in Resources |-> IF r = "ng" THEN e ELSE Empty]
    /\ Idle

\* updateECSTags(client, resources, existingTags, desiredTags)
InitUpdateECSTags ==
    /\ entry = "updateECSTags" /\ pc = "call" /\ callee = "updateECSTags" /\ upc = "diff"
    /\ target = "i1"
    /\ clusterName = "c1" /\ loopVarPerIteration \in BOOLEAN /\ pageSize = [inst |-> 2, vol |-> 2]
    /\ \E e \in TagMaps(PlainKeys, MaxTags), d \in TagMaps(PlainKeys, MaxTags) :
          /\ existingTags = e /\ desiredTags = d /\ wanted = d
          /\ cloud = [r \in Resources |-> IF r = "i1" THEN e ELSE Empty]
    /\ Idle

\* s.reconcileASGTags(ng)
InitReconcileASGTags ==
    /\ entry = "reconcileASGTags" /\ pc = "describeASGs" /\ callee = "none" /\ upc = "idle"
    /\ target = "asg" /\ existingTags = Empty /\ desiredTags = Empty
    /\ clusterName \in ClusterNames /\ loopVarPerIteration = TRUE
    /\ pageSize = [inst |-> 2, vol |-> 2]
    /\ \E e \in TagMaps(ASGKeys, MaxTags), d \in TagMaps(ASGKeys, MaxTags) :
          /\ wanted = d
          /\ cloud = [r \in Resources |-> IF r = "asg" THEN e ELSE Empty]
    /\ Idle

\* s.reconcileTags(ng), lines 115-116: updateTags is called on the nodegroup with
\* ng.Tags (none yet, or the desired ones already) and ngTags(...); the instances
\* carry one tag map, the volumes another
InitReconcileTags ==
    /\ entry = "reconcileTags" /\ pc = "updateTags" /\ callee = "updateTags" /\ upc = "diff"
    /\ target = "ng"
    /\ clusterName = "c1" /\ loopVarPerIteration \in BOOLEAN
    /\ pageSize \in [inst : PageSizes, vol : PageSizes]
    /\ \E d \in TagMaps(CascadeKeys, MaxResTags), it \in TagMaps(CascadeKeys, MaxResTags),
          vt \in TagMaps(CascadeKeys, MaxResTags) :
       \E ngt \in {Empty, d} :
          /\ wanted = d /\ existingTags = ngt /\ desiredTags = d
          /\ cloud = [r \in Resources |->
                         CASE r = "ng" -> ngt
                           [] r \in Range(Instances) -> it
                           [] r = "asg" -> Empty
                           [] OTHER -> vt]
    /\ Idle

Init == InitUpdateTags \/ InitUpdateECSTags \/ InitReconcileASGTags \/ InitReconcileTags

Next ==
    \/ updateTags_getTagUpdates
    \/ updateTags_TagResource
    \/ updateTags_UntagResource
    \/ updateECSTags_getTagUpdates
    \/ updateECSTags_CreateTags
    \/ updateECSTags_DeleteTags
    \/ reconcileASGTags_describeASGs
    \/ reconcileASGTags_CreateOrUpdateTags
    \/ reconcileASGTags_DeleteTags
    \/ reconcileInstanceTags_DescribeAutoScalingGroups
    \/ reconcileInstanceTags_DescribeInstances
    \/ reconcileInstanceTags_instance
    \/ reconcileInstanceTags_NextToken
    \/ reconcileEBSVolumeTags_DescribeVolumes
    \/ reconcileEBSVolumeTags_volume
    \/ reconcileEBSVolumeTags_NextToken

Spec == Init /\ [][Next]_vars


\* the cascade alone; the run is sequential and every API call returns, so a
\* step that can be taken is taken
NextReconcileTags ==
    \/ updateTags_getTagUpdates
    \/ updateTags_TagResource
    \/ updateTags_UntagResource
    \/ updateECSTags_getTagUpdates
    \/ updateECSTags_CreateTags
    \/ updateECSTags_DeleteTags
    \/ reconcileInstanceTags_DescribeAutoScalingGroups
    \/ reconcileInstanceTags_DescribeInstances
    \/ reconcileInstanceTags_instance
    \/ reconcileInstanceTags_NextToken
    \/ reconcileEBSVolumeTags_DescribeVolumes
    \/ reconcileEBSVolumeTags_volume
    \/ reconcileEBSVolumeTags_NextToken

FairReconcileTags ==
    InitReconcileTags /\ [][NextReconcileTags]_vars /\ WF_vars(NextReconcileTags)


(***************************************************************************)
(* Vocabulary of the properties.                                           *)
(***************************************************************************)
AddAPIs == {"TagResource", "CreateTags", "CreateOrUpdateTags"}
RemoveAPIs == {"UntagResource", "DeleteTags", "ASGDeleteTags"}
InstanceSet == Range(Instances)
VolumeSet == UNION {Range(VolumesOf(x)) : x \in InstanceSet}
Owner(v) == CHOOSE x \in InstanceSet : v \in Range(VolumesOf(x))
\* the history is complete and its last entry is the request last sent
Recorded == Len(calls) > 0 /\ Len(calls) < MaxCalls
LastCall == calls[Len(calls)]
Upserts == IF entry = "reconcileASGTags" THEN tagsToAdd ELSE newTags
Deletes == IF entry = "reconcileASGTags" THEN DOMAIN tagsToDelete ELSE Range(untagKeys)
\* getTagUpdates has returned to updateTags / updateECSTags
Diffed == callee # "none" /\ upc \in {"add", "remove"}
ASGDiffed == entry = "reconcileASGTags" /\ pc \in {"CreateOrUpdateTags", "DeleteTags"}

\* C1: round trip of the plain differ. Whenever getTagUpdates(existingTags,
\* desiredTags) has returned (untagKeys, newTags): existingTags without the keys
\* of untagKeys, then overwritten with every pair of newTags, is desiredTags.
C1_RoundTrip ==
    Diffed =>
        Overlay([k \in DOMAIN existingTags \ Range(untagKeys) |-> existingTags[k]], newTags)
            = desiredTags

\* a diff that deletes a key and changes the value of another
C1_Witness ==
    /\ Diffed /\ entry = "updateTags"
    /\ Len(untagKeys) > 0
    /\ \E k \in DOMAIN newTags : k \in DOMAIN existingTags

\* C2: protected-key exemption of the ASG differ. Of the keys the ASG carries
\* and the desired tags lack, tagsToDelete holds exactly those outside the
\* protected set (eks:cluster-name, eks:nodegroup-name,
\* k8s.io/cluster-autoscaler/<clusterName>, k8s.io/cluster-autoscaler/enabled,
\* the cluster's cloud-provider ownership key).
C2_Protected ==
    {"eks:cluster-name", "eks:nodegroup-name", "k8s.io/cluster-autoscaler/" \o clusterName,
     "k8s.io/cluster-autoscaler/enabled", ClusterAWSCloudProviderTagKey(clusterName)}

C2_ProtectedKeysExempt ==
    ASGDiffed =>
        \A k \in DOMAIN initial["asg"] :
            k \notin DOMAIN wanted =>
                (k \in DOMAIN tagsToDelete <=> k \notin C2_Protected)

\* a protected key and an unprotected key, both absent from the desired tags
C2_Witness ==
    /\ ASGDiffed /\ pc = "DeleteTags"
    /\ \E k \in DOMAIN initial["asg"] : k \notin DOMAIN wanted /\ k \in C2_Protected
    /\ DOMAIN tagsToDelete # {}

\* C3: idempotence. When the current tags equal the desired tags both differs
\* return an empty removal set and an empty upsert map, and a run of
\* updateTags, updateECSTags or reconcileASGTags on such a resource sends no
\* add/update request and no remove request.
C3_Idempotent ==
    /\ (Diffed /\ existingTags = desiredTags) =>
            (Len(untagKeys) = 0 /\ DOMAIN newTags = {})
    /\ (ASGDiffed /\ initial["asg"] = wanted) =>
            (DOMAIN tagsToDelete = {} /\ DOMAIN tagsToAdd = {})
    /\ \A n \in 1..Len(calls) :
            (calls[n].api \in AddAPIs \cup RemoveAPIs
                /\ (entry # "reconcileTags" \/ calls[n].res = "ng"))
            => initial[calls[n].res] # wanted

\* updateTags has run to its end on a resource that carries the two desired tags
C3_Witness ==
    /\ entry = "updateTags" /\ pc = "done" /\ err = NoError
    /\ existingTags = desiredTags
    /\ Cardinality(DOMAIN desiredTags) >= 2

\* C4: pagination is drained before diffing. When updateECSTags is called for
\* an instance the describe output in hand holds every instance of the
\* nodegroup, and when it is called for a volume the output in hand holds every
\* volume of the instance: no diff is computed on a partial result.
C4_PagesDrainedBeforeDiff ==
    /\ (entry = "reconcileTags" /\ pc = "instance") =>
            InstanceSet \subseteq Range(output.Items)
    /\ (entry = "reconcileTags" /\ pc = "volume") =>
            Range(VolumesOf(output.Items[i])) \subseteq Range(voutput.Items)

\* C5: cascade ordering of NodegroupService.reconcileTags. No ASG tag request
\* follows an instance tag request; a volume's tag request has the tag request
\* of its own instance as the nearest instance tag request before it; and no
\* entity is sent more than one add/update request.
C5_CascadeOrder ==
    entry = "reconcileTags" =>
        /\ \A a, b \in 1..Len(calls) :
              (a < b /\ calls[a].api = "CreateTags" /\ calls[a].res \in InstanceSet)
              => calls[b].api \notin {"CreateOrUpdateTags", "ASGDeleteTags"}
        /\ \A a, b \in 1..Len(calls) :
              (/\ a < b
               /\ calls[a].api = "CreateTags" /\ calls[a].res \in InstanceSet
               /\ calls[b].api = "CreateTags" /\ calls[b].res \in VolumeSet
               /\ Owner(calls[b].res) # calls[a].res)
              => \E c \in (a + 1)..(b - 1) :
                    calls[c].api = "CreateTags" /\ calls[c].res = Owner(calls[b].res)
        /\ \A a, b \in 1..Len(calls) :
              (a < b /\ calls[a].api \in AddAPIs /\ calls[b].api \in AddAPIs)
              => calls[a].res # calls[b].res

\* C6: abort on failure without rollback. A request that failed is the last
\* request of the run: the function has returned that error, so neither the
\* remove request of the same resource, nor a request for a later instance or
\* volume, nor a request undoing earlier tags follows it.
C6_AbortOnFailure ==
    /\ \A n \in 1..Len(calls) :
          ~calls[n].ok => (n = Len(calls) /\ pc = "done" /\ err = calls[n].api)
    /\ err # NoError => (pc = "done" /\ callee = "none")

\* the cascade failed on volume v1 after instance i1 was tagged; i1 keeps its new tags
C6_Witness ==
    /\ entry = "reconcileTags" /\ pc = "done" /\ err = "CreateTags"
    /\ target = "v1"
    /\ cloud["i1"] # initial["i1"]

\* C7: identity tags on volumes. After the cascade has returned nil every
\* volume carries eks:cluster-name = the cluster's name and
\* eks:nodegroup-name = the nodegroup's name, whatever it carried before.
C7_IdentityTagsOnVolumes ==
    (entry = "reconcileTags" /\ pc = "done" /\ err = NoError) =>
        \A v \in VolumeSet :
            /\ eksClusterNameTag \in DOMAIN cloud[v]
            /\ cloud[v][eksClusterNameTag] = clusterName
            /\ eksNodeGroupNameTag \in DOMAIN cloud[v]
            /\ cloud[v][eksNodeGroupNameTag] = NodegroupName

\* C8: the requests sent are exactly the diff. An add/update request carries
\* one entry per key of the upsert map, each with that key's own value; a
\* remove request carries each key of the removal set once; and a run of
\* updateTags, updateECSTags or reconcileASGTags that returned nil has sent an
\* add/update request iff the upsert map is non-empty and a remove request iff
\* the removal set is non-empty.
C8_RequestsAreTheDiff ==
    /\ (Recorded /\ LastCall.api \in AddAPIs) =>
            sent = [tags |-> TagEntries(Upserts), n |-> Cardinality(DOMAIN Upserts)]
    /\ (Recorded /\ LastCall.api \in RemoveAPIs) =>
            sent = [tags |-> KeyEntries(Deletes), n |-> Cardinality(Deletes)]
    /\ (entry # "reconcileTags" /\ pc = "done" /\ err = NoError) =>
            /\ (\E n \in 1..Len(calls) : calls[n].api \in AddAPIs) <=> DOMAIN Upserts # {}
            /\ (\E n \in 1..Len(calls) : calls[n].api \in RemoveAPIs) <=> Deletes # {}

\* C9: termination of the cascade. Every run of reconcileTags in which each
\* step that can be taken is taken reaches the return of the function.
C9_Terminates == <>(pc = "done")

\* C10: instance and volume tags are only added or overwritten. The cascade
\* sends no DeleteTags request, and after it has returned nil every instance
\* and volume still carries every key it carried before, with its old value
\* unless the nodegroup's desired tags define that key.
C10_NeverRemoved ==
    entry = "reconcileTags" =>
        /\ \A n \in 1..Len(calls) : calls[n].api # "DeleteTags"
        /\ (pc = "done" /\ err = NoError) =>
                \A r \in InstanceSet \cup VolumeSet :
                    \A k \in DOMAIN initial[r] :
                        /\ k \in DOMAIN cloud[r]
                        /\ k \notin DOMAIN wanted => cloud[r][k] = initial[r][k]

\* a finished cascade that overwrote a tag of i1 and whose volumes carried a tag
C10_Witness ==
    /\ entry = "reconcileTags" /\ pc = "done" /\ err = NoError
    /\ \E k \in DOMAIN initial["i1"] :
          k \in DOMAIN wanted /\ wanted[k] # initial["i1"][k] /\ cloud["i1"][k] = wanted[k]
    /\ DOMAIN initial["v1"] # {}

====
